---- MODULE Spec2Model ----
(***************************************************************************)
(* A model of stylelint-value-no-unknown-custom-properties (src/index.js): *)
(* the custom-property resolver (sources, @import following) and the       *)
(* value-reference validator (var() walk).                                 *)
(*                                                                         *)
(* Text is modelled as sequences of character codes, so that the regular   *)
(* expressions of the source are evaluated on characters.                  *)
(***************************************************************************)
EXTENDS Integers, Sequences, FiniteSets, TLC

(***************************************************************************)
(* Bounds of the model.                                                    *)
(***************************************************************************)
\* nesting depth of the value syntax trees the validator is applied to
MaxDepth == 3
\* the number of loads (of sources, imports and linted roots) a run may start
MaxTasks == 6
\* the number of configured sources (importFrom)
MaxSources == 2
\* the length of the property names the declaration walk is applied to
MaxName == 4

(***************************************************************************)
(* State.                                                                  *)
(***************************************************************************)
VARIABLES
    method,       \* the rule's configuration value
    importFrom,   \* [].concat(opts.importFrom || [])
    files,        \* the file system
    sheets,       \* the stylesheets the host hands to the rule, parsed
    built,        \* whether the rule function has been called
    descriptors,  \* sources.map(...): what the reduce step awaits
    foldIdx,      \* the source the reduce step is at
    foldPc,       \* where customPropertiesPromise stands
    foldTask,     \* the load of the CSS source being folded
    acc,          \* the accumulator object of the reduce, {} at first
    resolvedAs,   \* history: acc when customPropertiesPromise fulfilled
    tasks,        \* the loads started, in the order they were started
    lint,         \* the lint callback of each stylesheet
    work,         \* history: the work done for the sources, in order
    \* the validator applied to one declaration under one final mapping:
    vDecl,        \* the declaration
    vMap,         \* the final mapping
    vResult,      \* the reports made, and whether validation ended normally
    vPc,          \* "ready" before validateResult, "done" after
    \* the declaration walk applied to one root with one declaration:
    wProp,        \* the property name of the declaration
    wOut,         \* the mapping getCustomPropertiesFromRoot returns
    wPc           \* "ready" before the walk, "done" after

svars == <<method, importFrom, files, sheets, built, descriptors, foldIdx, foldPc,
           foldTask, acc, resolvedAs, tasks, lint, work>>

inputs == <<method, importFrom, files, sheets>>

vvars == <<vDecl, vMap, vResult, vPc>>

wvars == <<wProp, wOut, wPc>>

vars == <<svars, vvars, wvars>>

(***************************************************************************)
(* Characters and text.                                                    *)
(***************************************************************************)
\* \w of a JavaScript regular expression: [A-Za-z0-9_]
WordChars == (48..57) \cup (65..90) \cup {95} \cup (97..122)

\* the texts "var", "calc", "color", "--a", "--b", "red"
TxtVar == <<118, 97, 114>>
TxtCalc == <<99, 97, 108, 99>>
TxtColor == <<99, 111, 108, 111, 114>>
NameA == <<45, 45, 97>>
NameB == <<45, 45, 98>>
TxtRed == <<114, 101, 100>>

(***************************************************************************)
(* Value syntax trees, as postcss-values-parser produces them: a word      *)
(* carries isVariable (its text starts with "--"), a func carries name and *)
(* nodes, punctuation carries its character.                               *)
(***************************************************************************)
Word(v) ==
    [type |-> "word", value |-> v,
     isVariable |-> (Len(v) > 2 /\ v[1] = 45 /\ v[2] = 45)]

Comma == [type |-> "punctuation", value |-> <<44>>]

Func(n, ns) == [type |-> "func", name |-> n, nodes |-> ns]

\* the children of a node: node.nodes, absent on words and punctuation
\* (Object(ast.nodes).length is then undefined, which is falsy)
NodesOf(ast) == IF "nodes" \in DOMAIN ast THEN ast.nodes ELSE <<>>

RECURSIVE JoinText(_)
RECURSIVE NodeText(_)
\* the source text of a node: the text the parser read the node from
NodeText(node) ==
    IF node.type = "func"
    THEN node.name \o <<40>> \o JoinText(node.nodes) \o <<41>>
    ELSE node.value

\* children are separated by a space, except before a comma
JoinText(nodes) ==
    IF nodes = <<>> THEN <<>>
    ELSE IF Len(nodes) = 1 THEN NodeText(nodes[1])
    ELSE IF nodes[2].type = "punctuation"
         THEN NodeText(nodes[1]) \o JoinText(Tail(nodes))
         ELSE NodeText(nodes[1]) \o <<32>> \o JoinText(Tail(nodes))

(***************************************************************************)
(* validateValueAST and its helpers (src/index.js 209-290).                *)
(***************************************************************************)
ruleName == "csstools/value-no-unknown-custom-properties"

\* messages.unexpected(name, prop): the message text, as its parts
unexpected(name, prop) ==
    <<"Unexpected custom property \"", name,
      "\" inside declaration \"", prop, "\".">>

\* node.nodes[0].isVariable raises a TypeError when node.nodes is empty
isVarFunctionThrows(node) ==
    /\ node.type = "func"
    /\ node.name = TxtVar
    /\ Len(node.nodes) = 0

\* isVarFunction(node), where it does not raise
isVarFunction(node) ==
    /\ node.type = "func"
    /\ node.name = TxtVar
    /\ Len(node.nodes) > 0
    /\ node.nodes[1].type = "word"
    /\ node.nodes[1].isVariable

\* a variant: customProperties[propertyName] tested for truthiness, which an
\* empty value fails
InMappingTruthy(propertyName, customProperties) ==
    /\ propertyName \in DOMAIN customProperties
    /\ customProperties[propertyName] # <<>>

\* propertyName in customProperties
InMapping(propertyName, customProperties) ==
    propertyName \in DOMAIN customProperties

\* const [propertyNode, comma, ...fallbacks] = node.nodes, on the children
\* taken with their positions
fallbacksOf(kids) == SubSeq(kids, 3, Len(kids))

\* stylelint.utils.report({message, node: decl, result, ruleName, word})
Report(propertyName, decl) ==
    [message |-> unexpected(propertyName, decl.prop),
     node |-> decl.id,
     ruleName |-> ruleName,
     word |-> propertyName]

\* the items a walk visits: each node with its position in the value tree
\* (the position is history only: it tells the occurrences of a name apart)
Items(nodes, at) ==
    [i \in 1..Len(nodes) |-> [node |-> nodes[i], at |-> Append(at, i)]]

Thrown == [ok |-> FALSE, out |-> <<>>]
Nothing == [ok |-> TRUE, out |-> <<>>]

RECURSIVE validateValueAST(_, _, _)
RECURSIVE VisitNode(_, _, _)
\* a variant of the forEach callback without the return after the fallbacks
\* are validated: the call falls through to its own report
VisitNodeFallThrough(item, customProperties, decl) ==
    LET node == item.node
        kids == Items(NodesOf(node), item.at)
        own == << [report |-> Report(node.nodes[1].value, decl), at |-> item.at] >>
    IN
    IF isVarFunctionThrows(node) THEN Thrown
    ELSE IF isVarFunction(node)
    THEN IF InMapping(node.nodes[1].value, customProperties) THEN Nothing
         ELSE IF Len(fallbacksOf(kids)) > 0
         THEN LET inner == validateValueAST(
                               SelectSeq(fallbacksOf(kids), LAMBDA f : isVarFunction(f.node)),
                               customProperties, decl)
              IN  [ok |-> inner.ok, out |-> inner.out \o own]
         ELSE [ok |-> TRUE, out |-> own]
    ELSE validateValueAST(kids, customProperties, decl)

\* validateValueAST(ast, {result, customProperties, decl}): ast.nodes.forEach;
\* the result is the reports made, in order, and whether the walk ended
\* without raising (a raise ends the forEach)
validateValueAST(items, customProperties, decl) ==
    IF items = <<>> THEN Nothing
    ELSE LET first == VisitNode(Head(items), customProperties, decl)
         IN  IF ~first.ok THEN first
             ELSE LET rest == validateValueAST(Tail(items), customProperties, decl)
                  IN  [ok |-> rest.ok, out |-> first.out \o rest.out]

\* the body of the forEach callback
VisitNode(item, customProperties, decl) ==
    LET node == item.node
        kids == Items(NodesOf(node), item.at)
    IN
    IF isVarFunctionThrows(node) THEN Thrown
    ELSE IF isVarFunction(node)
    THEN LET propertyName == node.nodes[1].value
             fallbacks == fallbacksOf(kids)
         IN  IF InMapping(propertyName, customProperties) THEN Nothing
             ELSE IF Len(fallbacks) > 0
             THEN IF \E i \in 1..Len(fallbacks) : isVarFunctionThrows(fallbacks[i].node)
                  THEN Thrown
                  ELSE validateValueAST(
                           SelectSeq(fallbacks, LAMBDA f : isVarFunction(f.node)),
                           customProperties, decl)
             ELSE [ok |-> TRUE,
                   out |-> << [report |-> Report(propertyName, decl), at |-> item.at] >>]
    ELSE validateValueAST(kids, customProperties, decl)

\* a variant: the expression anchored at the start of the value, /^var\(.+\)/
RegExpTestAnchored(text) ==
    /\ Len(text) >= 6
    /\ SubSeq(text, 1, 4) = TxtVar \o <<40>>
    /\ \E j \in 6..Len(text) : text[j] = 41

\* customPropertyReferenceRegExp = /(^|[^\w-])var\([\W\w]+\)/ tested on text
customPropertyReferenceRegExpTest(text) ==
    \E i \in 1..Len(text) :
        /\ i + 3 <= Len(text)
        /\ SubSeq(text, i, i + 3) = TxtVar \o <<40>>
        /\ (i = 1 \/ text[i - 1] \notin (WordChars \cup {45}))
        /\ \E j \in (i + 5)..Len(text) : text[j] = 41

hasCustomPropertyReference(decl) == customPropertyReferenceRegExpTest(decl.value)

\* validateDecl: parse(decl.value) is the tree the declaration was written
\* from; validateValueAST walks its nodes
validateDecl(decl, customProperties) ==
    validateValueAST(Items(decl.ast, <<>>), customProperties, decl)

\* a declaration: its property, the text of its value, and the tree the value
\* parser returns for that text
Decl(id, prop, ast) ==
    [id |-> id, prop |-> prop, value |-> JoinText(ast), ast |-> ast]

RECURSIVE validateResult(_, _)
\* validateResult(result, customProperties): root.walkDecls over the
\* declarations, in order; a raise ends the walk
validateResult(decls, customProperties) ==
    IF decls = <<>> THEN Nothing
    ELSE LET first == IF hasCustomPropertyReference(Head(decls))
                      THEN validateDecl(Head(decls), customProperties)
                      ELSE Nothing
         IN  IF ~first.ok THEN first
             ELSE LET rest == validateResult(Tail(decls), customProperties)
                  IN  [ok |-> rest.ok, out |-> first.out \o rest.out]

(***************************************************************************)
(* The inputs of the validator: value trees up to MaxDepth, as the value   *)
(* parser builds them, and the mappings over the names used.               *)
(***************************************************************************)
Atoms == {Word(NameA), Word(NameB), Word(TxtRed)}

FuncNames == {TxtVar, TxtCalc}

\* the children lists of a function: none, one argument, a name with a comma
\* and a fallback, or two words with no comma between them
Args(V) ==
    {<<>>} \cup {<<x>> : x \in V}
           \cup {<<x, Comma, y>> : x \in Atoms, y \in V}
           \cup {<<x, y>> : x \in Atoms, y \in Atoms}

Funcs(V) == {Func(n, a) : n \in FuncNames, a \in Args(V)}

RECURSIVE Values(_)
Values(d) == IF d = 0 THEN Atoms ELSE Atoms \cup Funcs(Values(d - 1))

\* a mapping: the names it knows, each with a raw value (possibly empty)
Mappings ==
    UNION {[S -> {TxtRed, <<>>}] : S \in SUBSET {NameA, NameB}}

(***************************************************************************)
(* The validator applied to one declaration under one final mapping.       *)
(***************************************************************************)
VInputs ==
    /\ vDecl \in {Decl(1, TxtColor, <<v>>) : v \in Values(MaxDepth)}
    /\ vMap \in Mappings
    /\ vResult = Nothing
    /\ vPc = "ready"

\* validateResult(result, customProperties) on the declaration
Validate ==
    /\ vPc = "ready"
    /\ vResult' = validateResult(<<vDecl>>, vMap)
    /\ vPc' = "done"
    /\ UNCHANGED <<vDecl, vMap>>
    /\ UNCHANGED <<svars, wvars>>



(***************************************************************************)
(* Paths and their texts.                                                  *)
(***************************************************************************)
\* "/a.css", "/b.css", "/c.css", "/x.css" (never a file), "/j.json", "/m.js"
PathA == <<47, 97, 46, 99, 115, 115>>
PathB == <<47, 98, 46, 99, 115, 115>>
PathC == <<47, 99, 46, 99, 115, 115>>
PathX == <<47, 120, 46, 99, 115, 115>>
PathJ == <<47, 106, 46, 106, 115, 111, 110>>
PathM == <<47, 109, 46, 106, 115>>
\* "/s.css", "/t.css": the stylesheets that are linted
PathS == <<47, 115, 46, 99, 115, 115>>
PathT == <<47, 116, 46, 99, 115, 115>>

\* the type names "css", "js", "json"
TxtCss == <<99, 115, 115>>
TxtJs == <<106, 115>>
TxtJson == <<106, 115, 111, 110>>

\* path.isAbsolute(p), POSIX
isAbsolute(p) == Len(p) > 0 /\ p[1] = 47

\* the position of the last c in text, 0 when there is none
LastIndexOf(text, c) ==
    IF \E i \in 1..Len(text) : text[i] = c
    THEN CHOOSE i \in 1..Len(text) :
             text[i] = c /\ \A j \in (i + 1)..Len(text) : text[j] # c
    ELSE 0

\* path.dirname(p) of an absolute path
dirname(p) ==
    IF LastIndexOf(p, 47) <= 1 THEN <<47>>
    ELSE SubSeq(p, 1, LastIndexOf(p, 47) - 1)

\* path.extname(p): from the last dot of the base name, empty when there is
\* none or when the base name starts with it
extname(p) ==
    LET dot == LastIndexOf(p, 46)
        slash == LastIndexOf(p, 47)
    IN  IF dot > slash + 1 THEN SubSeq(p, dot, Len(p)) ELSE <<>>

\* String.prototype.toLowerCase on ASCII
toLowerCase(text) ==
    [i \in 1..Len(text) |-> IF text[i] \in 65..90 THEN text[i] + 32 ELSE text[i]]

\* path.resolve(p) with the working directory "/"
pathResolve(p) == IF isAbsolute(p) THEN p ELSE <<47>> \o p

\* atRule.params.replace(/['|"]/g, ''): drops every ', | and "
StripQuotes(params) == SelectSeq(params, LAMBDA c : c \notin {39, 124, 34})

\* path.join(dir, rest) for a directory and a relative rest
JoinPath(dir, rest) ==
    IF dir[Len(dir)] = 47 THEN dir \o rest ELSE dir \o <<47>> \o rest

(***************************************************************************)
(* Mappings and objects.  A mapping is a function from names to raw value  *)
(* texts; an object is a function from field names to values.              *)
(***************************************************************************)
EmptyMap == <<>>

Undefined == [t |-> "undefined"]
Obj(m) == [t |-> "object", m |-> m]

\* Object.assign(target, source): undefined sources are skipped
ObjectAssign(target, source) ==
    IF source.t = "undefined" THEN target
    ELSE [n \in DOMAIN target \cup DOMAIN source.m |->
             IF n \in DOMAIN source.m THEN source.m[n] ELSE target[n]]

RECURSIVE AssignAllFirstWins(_, _)
\* a variant: the results are merged from the last to the first, so that the
\* first of the array wins
AssignAllFirstWins(target, sources) ==
    IF sources = <<>> THEN target
    ELSE ObjectAssign(AssignAllFirstWins(target, Tail(sources)), Head(sources))

\* Object.assign over the results of Promise.all, in the order of the array
RECURSIVE AssignAll(_, _)
AssignAll(target, sources) ==
    IF sources = <<>> THEN target
    ELSE AssignAll(ObjectAssign(target, Head(sources)), Tail(sources))

\* getCustomPropertiesFromObject(object):
\* Object.assign({}, object.customProperties, object['custom-properties'])
getCustomPropertiesFromObject(object) ==
    LET first == IF "customProperties" \in DOMAIN object
                 THEN Obj(object["customProperties"]) ELSE Undefined
        second == IF "custom-properties" \in DOMAIN object
                  THEN Obj(object["custom-properties"]) ELSE Undefined
    IN  ObjectAssign(ObjectAssign(EmptyMap, first), second)

\* customPropertyRegExp = /^--[A-z][\w-]*$/ tested on a property name
customPropertyRegExpTest(prop) ==
    /\ Len(prop) >= 3
    /\ prop[1] = 45
    /\ prop[2] = 45
    /\ prop[3] \in 65..122
    /\ \A i \in 4..Len(prop) : prop[i] \in WordChars \cup {45}

RECURSIVE walkDeclsKeep(_, _)
\* a variant: a declaration is written only when the name is not yet a key
walkDeclsKeep(customProperties, decls) ==
    IF decls = <<>> THEN customProperties
    ELSE LET d == Head(decls)
             next == IF customPropertyRegExpTest(d.prop) /\ d.prop \notin DOMAIN customProperties
                     THEN ObjectAssign(customProperties, Obj(d.prop :> d.value))
                     ELSE customProperties
         IN  walkDeclsKeep(next, Tail(decls))

RECURSIVE walkDeclsInto(_, _)
\* root.walkDecls(customPropertyRegExp, decl => customProperties[prop] = value)
walkDeclsInto(customProperties, decls) ==
    IF decls = <<>> THEN customProperties
    ELSE LET d == Head(decls)
             next == IF customPropertyRegExpTest(d.prop)
                     THEN ObjectAssign(customProperties, Obj(d.prop :> d.value))
                     ELSE customProperties
         IN  walkDeclsInto(next, Tail(decls))

(***************************************************************************)
(* Sources (importFrom) and their normalisation, the map step of           *)
(* getCustomPropertiesFromSources.                                         *)
(***************************************************************************)
StrSource(text) == [t |-> "string", s |-> text]
ObjSource(fields) == [t |-> "object", o |-> fields]
\* a factory, as what it returns when called, and a promise, as what it
\* fulfils with
FnSource(returns) == [t |-> "function", returns |-> returns]
PromiseOf(value) == [t |-> "promise", of |-> value]

\* sources.map(source => ...): the descriptor object the reduce step awaits
NormalizeSource(source) ==
    LET opts == IF source.t = "object" THEN source.o ELSE ("from" :> source.s)
    IN  IF "customProperties" \in DOMAIN opts \/ "custom-properties" \in DOMAIN opts
        THEN opts
        ELSE LET from == pathResolve(IF "from" \in DOMAIN opts THEN opts["from"] ELSE <<>>)
                 type == toLowerCase(IF "type" \in DOMAIN opts THEN opts["type"]
                                     ELSE IF extname(from) = <<>> THEN <<>>
                                     ELSE Tail(extname(from)))
             IN  ("type" :> type) @@ ("from" :> from)

\* sources.map(source => ...): a promise is passed on, a factory is called
\* and what it returns is passed on, anything else is normalised
MapSource(source) ==
    IF source.t = "promise" THEN source
    ELSE IF source.t = "function" THEN source.returns
    ELSE ObjSource(NormalizeSource(source))

RECURSIVE Awaited(_)
\* await source: what a promise fulfils with, anything else as it is
Awaited(v) == IF v.t = "promise" THEN Awaited(v.of) ELSE v

\* the properties read off an awaited source ({type, from} = ..., and
\* Object(...).customProperties): a string has none of them
FieldsOf(v) == IF v.t = "object" THEN v.o ELSE EmptyMap

\* one entry of the history of the work done for the sources
Ev(kind, i) == [ev |-> kind, src |-> i]

\* the loader the reduce step picks for a descriptor
LoaderOf(descriptor) ==
    IF "type" \notin DOMAIN descriptor THEN "object"
    ELSE IF descriptor["type"] = TxtCss THEN "css"
    ELSE IF descriptor["type"] = TxtJs THEN "js"
    ELSE IF descriptor["type"] = TxtJson THEN "json"
    ELSE "object"

(***************************************************************************)
(* The file system and module resolution.  A file is CSS text (its @import *)
(* parameters and its declarations, in document order), text that does not *)
(* parse, a file that cannot be read, or a JSON / module object.           *)
(***************************************************************************)
CssFile(imports, decls) == [kind |-> "css", imports |-> imports, decls |-> decls]
BadFile == [kind |-> "bad"]
Unreadable == [kind |-> "unreadable"]
ObjectFile(fields) == [kind |-> "object", o |-> fields]

\* resolve(id, {basedir, extensions: ['.css'], ...}) on file system files: a
\* relative id names a file under basedir, with or without the extension; a
\* bare id is looked up in the module directories, which hold nothing here
resolveId(id, basedir) ==
    LET isRelative == Len(id) > 2 /\ SubSeq(id, 1, 2) = <<46, 47>>
        exact == JoinPath(basedir, SubSeq(id, 3, Len(id)))
        withExt == exact \o <<46>> \o TxtCss
    IN  IF isRelative /\ exact \in DOMAIN files THEN [ok |-> TRUE, path |-> exact]
        ELSE IF isRelative /\ withExt \in DOMAIN files THEN [ok |-> TRUE, path |-> withExt]
        ELSE [ok |-> FALSE, path |-> <<>>]

(***************************************************************************)
(* The rule: construction, the fold over the configured sources, the       *)
(* loads of imported files, and the lint callback of each stylesheet.      *)
(***************************************************************************)
\* __dirname, "/p": the source directory of a root with no file
DirName == <<47, 112>>

\* a variant: the method tested for truthiness rather than for being true
isMethodTruthy(m) ==
    \/ m.t = "boolean" /\ m.v = "true"
    \/ m.t \in {"number", "string"}

\* a value is its type and its text: true is not "true"
isMethodEnabled(m) == m.t = "boolean" /\ m.v = "true"

isMethodDisabled(m) == m.t = "null" \/ (m.t = "boolean" /\ m.v = "false")

\* validateOptions(result, ruleName, {actual: method, possible}): possible()
isMethodValid(m) == isMethodEnabled(m) \/ isMethodDisabled(m)

\* a stylesheet root: root.source.input.file (empty for none), its @import
\* parameters and its declarations, in document order
Sheet(file, imports, decls) == [file |-> file, imports |-> imports, decls |-> decls]

\* one load: kind "rel" is resolveId(...).then(load).catch(() => {}), "abs"
\* is getCustomPropertiesFromCSSFile$1 (try/catch), "src" is
\* getCustomPropertiesFromCSSFile of a configured source (no catch), "root"
\* is getCustomPropertiesFromRoot on a linted stylesheet
Task(kind, pc, id, basedir, file, sheet) ==
    [kind |-> kind, pc |-> pc, id |-> id, basedir |-> basedir, file |-> file,
     sheet |-> sheet, children |-> <<>>, state |-> "pending", value |-> Undefined,
     order |-> 0]

\* the promise pushed on importPromises for one @import
ImportTask(params, sourceDir) ==
    LET fileName == StripQuotes(params)
    IN  IF isAbsolute(fileName)
        THEN Task("abs", "read", <<>>, <<>>, fileName, 0)
        ELSE Task("rel", "resolve", fileName, sourceDir, <<>>, 0)

\* root.walkAtRules('import', ...): one promise per @import, in order
ImportTasks(imports, sourceDir) ==
    [i \in 1..Len(imports) |-> ImportTask(imports[i], sourceDir)]

\* the source directory of a root parsed from file
SourceDir(file) == IF file # <<>> THEN dirname(file) ELSE DirName

\* the ids of n loads started after those of ts
NewIds(ts, n) == [i \in 1..n |-> Len(ts) + i]

\* whether reading and parsing file as CSS succeeds
Parses(file) == file \in DOMAIN files /\ files[file].kind = "css"

\* whether reading file as JSON, or loading it as a module, succeeds
Loads(file) == file \in DOMAIN files /\ files[file].kind = "object"

Settled(t) == tasks[t].state # "pending"

\* history: the place of the next load to settle among those that settled
SettleOrder == 1 + Cardinality({t \in 1..Len(tasks) : tasks[t].state # "pending"})

\* the reduce step moves on to the next source, or fulfils the promise
FoldAdvance(newAcc) ==
    /\ acc' = newAcc
    /\ work' = Append(work, Ev("fold", foldIdx))
    /\ foldIdx' = foldIdx + 1
    /\ foldPc' = IF foldIdx + 1 > Len(descriptors) THEN "done" ELSE "next"
    /\ resolvedAs' = IF foldIdx + 1 > Len(descriptors) THEN newAcc ELSE resolvedAs

\* a variant: the map step also starts the work of every source that is not
\* a factory, before the reduce folds anything
ConstructEager ==
    /\ ~built
    /\ built' = TRUE
    /\ IF isMethodEnabled(method)
       THEN /\ descriptors' = [i \in 1..Len(importFrom) |-> MapSource(importFrom[i])]
            /\ work' = [i \in 1..Len(importFrom) |->
                            IF importFrom[i].t = "function" THEN Ev("invoke", i)
                            ELSE Ev("start", i)]
            /\ foldPc' = IF Len(importFrom) = 0 THEN "done" ELSE "next"
       ELSE /\ descriptors' = <<>>
            /\ work' = work
            /\ foldPc' = "off"
    /\ UNCHANGED <<wvars, vvars, inputs, foldIdx, foldTask, acc, resolvedAs, tasks, lint>>

\* the rule function (method, opts) => ...: maps the sources and starts the
\* reduce when the method is enabled; customPropertiesPromise is {} otherwise
Construct ==
    /\ ~built
    /\ built' = TRUE
    /\ IF isMethodEnabled(method)
       THEN /\ descriptors' = [i \in 1..Len(importFrom) |-> MapSource(importFrom[i])]
            /\ work' = SelectSeq([i \in 1..Len(importFrom) |-> Ev("invoke", i)],
                                 LAMBDA e : importFrom[e.src].t = "function")
            /\ foldPc' = IF Len(importFrom) = 0 THEN "done" ELSE "next"
       ELSE /\ descriptors' = <<>>
            /\ work' = work
            /\ foldPc' = "off"
    /\ UNCHANGED <<wvars, vvars, inputs, foldIdx, foldTask, acc, resolvedAs, tasks, lint>>

\* the reduce callback of source foldIdx, once the accumulator before it has
\* resolved: picks the loader by type and starts it, or merges an object
FoldStart ==
    /\ foldPc = "next"
    /\ LET d == FieldsOf(Awaited(descriptors[foldIdx]))
       IN  IF LoaderOf(d) = "css"
           THEN /\ Len(tasks) < MaxTasks
                /\ tasks' = Append(tasks, Task("src", "read", <<>>, <<>>, d["from"], 0))
                /\ foldTask' = Len(tasks) + 1
                /\ foldPc' = "css"
                /\ work' = Append(work, Ev("start", foldIdx))
                /\ UNCHANGED <<foldIdx, acc, resolvedAs>>
           ELSE IF LoaderOf(d) \in {"js", "json"}
           THEN /\ foldPc' = "file"
                /\ work' = Append(work, Ev("start", foldIdx))
                /\ UNCHANGED <<foldIdx, foldTask, acc, resolvedAs, tasks>>
           ELSE /\ FoldAdvance(ObjectAssign(acc, Obj(getCustomPropertiesFromObject(d))))
                /\ UNCHANGED <<foldTask, tasks>>
    /\ UNCHANGED <<wvars, vvars, inputs, built, descriptors, lint>>

\* readJSON(from) or import(from) settles: the object's properties are merged,
\* or the rejection rejects the reduce callback and with it the promise
FoldLoaded ==
    /\ foldPc = "file"
    /\ LET from == FieldsOf(Awaited(descriptors[foldIdx]))["from"]
       IN  IF Loads(from)
           THEN FoldAdvance(ObjectAssign(acc, Obj(getCustomPropertiesFromObject(files[from].o))))
           ELSE /\ foldPc' = "failed"
                /\ UNCHANGED <<foldIdx, acc, resolvedAs, work>>
    /\ UNCHANGED <<wvars, vvars, inputs, built, descriptors, foldTask, tasks, lint>>

\* getCustomPropertiesFromCSSFile(from, resolver) of a source settles
FoldCss ==
    /\ foldPc = "css"
    /\ Settled(foldTask)
    /\ IF tasks[foldTask].state = "fulfilled"
       THEN FoldAdvance(ObjectAssign(acc, tasks[foldTask].value))
       ELSE /\ foldPc' = "failed"
            /\ UNCHANGED <<foldIdx, acc, resolvedAs, work>>
    /\ UNCHANGED <<wvars, vvars, inputs, built, descriptors, foldTask, tasks, lint>>

\* resolveId settles: the file found is loaded, or the failure is caught and
\* the import promise fulfils with undefined
TaskResolve(t) ==
    /\ tasks[t].pc = "resolve"
    /\ LET r == resolveId(tasks[t].id, tasks[t].basedir)
       IN  tasks' = [tasks EXCEPT ![t] =
               IF r.ok THEN [@ EXCEPT !.pc = "read", !.file = r.path]
               ELSE [@ EXCEPT !.pc = "done", !.state = "fulfilled", !.value = Undefined,
                              !.order = SettleOrder]]
    /\ UNCHANGED <<wvars, vvars, work, inputs, built, descriptors, foldIdx, foldPc, foldTask, acc,
                   resolvedAs, lint>>

\* a variant: getCustomPropertiesFromCSSFile$1 without its try/catch, so that
\* a failed read or parse rejects the load
TaskReadNoCatch(t) ==
    /\ tasks[t].pc = "read"
    /\ IF Parses(tasks[t].file)
       THEN LET new == ImportTasks(files[tasks[t].file].imports, SourceDir(tasks[t].file))
            IN  /\ Len(tasks) + Len(new) <= MaxTasks
                /\ tasks' = [tasks EXCEPT ![t] =
                                [@ EXCEPT !.pc = "join", !.children = NewIds(tasks, Len(new))]]
                            \o new
       ELSE tasks' = [tasks EXCEPT ![t] =
                [@ EXCEPT !.pc = "done", !.state = "rejected", !.order = SettleOrder]]
    /\ UNCHANGED <<wvars, vvars, work, inputs, built, descriptors, foldIdx, foldPc, foldTask, acc,
                   resolvedAs, lint>>

\* a variant with a revisit guard: a file that another load has already read
\* is not followed again and gives the empty mapping
TaskReadGuarded(t) ==
    /\ tasks[t].pc = "read"
    /\ IF \E u \in 1..Len(tasks) :
             u # t /\ tasks[u].file = tasks[t].file /\ tasks[u].pc \in {"join", "done"}
       THEN tasks' = [tasks EXCEPT ![t] =
                [@ EXCEPT !.pc = "done", !.state = "fulfilled", !.value = Obj(EmptyMap),
                          !.order = SettleOrder]]
       ELSE IF Parses(tasks[t].file)
       THEN LET new == ImportTasks(files[tasks[t].file].imports, SourceDir(tasks[t].file))
            IN  /\ Len(tasks) + Len(new) <= MaxTasks
                /\ tasks' = [tasks EXCEPT ![t] =
                                [@ EXCEPT !.pc = "join", !.children = NewIds(tasks, Len(new))]]
                            \o new
       ELSE tasks' = [tasks EXCEPT ![t] =
                IF tasks[t].kind = "src"
                THEN [@ EXCEPT !.pc = "done", !.state = "rejected", !.order = SettleOrder]
                ELSE [@ EXCEPT !.pc = "done", !.state = "fulfilled", !.value = Obj(EmptyMap),
                               !.order = SettleOrder]]
    /\ UNCHANGED <<wvars, vvars, work, inputs, built, descriptors, foldIdx, foldPc, foldTask, acc,
                   resolvedAs, lint>>

\* readFile settles and the text is parsed.  A failure is caught by
\* getCustomPropertiesFromCSSFile$1 (the load fulfils with {}) and rejects
\* getCustomPropertiesFromCSSFile.  Otherwise getCustomPropertiesFromRoot
\* starts one load per @import and awaits them all.
TaskRead(t) ==
    /\ tasks[t].pc = "read"
    /\ IF Parses(tasks[t].file)
       THEN LET new == ImportTasks(files[tasks[t].file].imports, SourceDir(tasks[t].file))
            IN  /\ Len(tasks) + Len(new) <= MaxTasks
                /\ tasks' = [tasks EXCEPT ![t] =
                                [@ EXCEPT !.pc = "join", !.children = NewIds(tasks, Len(new))]]
                            \o new
       ELSE tasks' = [tasks EXCEPT ![t] =
                IF tasks[t].kind = "src"
                THEN [@ EXCEPT !.pc = "done", !.state = "rejected", !.order = SettleOrder]
                ELSE [@ EXCEPT !.pc = "done", !.state = "fulfilled", !.value = Obj(EmptyMap),
                               !.order = SettleOrder]]
    /\ UNCHANGED <<wvars, vvars, work, inputs, built, descriptors, foldIdx, foldPc, foldTask, acc,
                   resolvedAs, lint>>

\* the declarations of the root a load works on
DeclsOfTask(t) ==
    IF tasks[t].kind = "root" THEN sheets[tasks[t].sheet].decls
    ELSE files[tasks[t].file].decls

\* a variant: the merge is made as soon as one of the loads has settled, the
\* loads still pending giving nothing
TaskJoinAny(t) ==
    /\ tasks[t].pc = "join"
    /\ \/ tasks[t].children = <<>>
       \/ \E i \in 1..Len(tasks[t].children) : Settled(tasks[t].children[i])
    /\ LET results == [i \in 1..Len(tasks[t].children) |-> tasks[tasks[t].children[i]].value]
           merged == AssignAll(EmptyMap, results)
       IN  tasks' = [tasks EXCEPT ![t] =
               [@ EXCEPT !.pc = "done", !.state = "fulfilled",
                         !.value = Obj(walkDeclsInto(merged, DeclsOfTask(t))),
                         !.order = SettleOrder]]
    /\ UNCHANGED <<wvars, vvars, work, inputs, built, descriptors, foldIdx, foldPc, foldTask, acc,
                   resolvedAs, lint>>

\* a variant: the merge waits until every load has fulfilled with a mapping,
\* which a load whose failure was caught (fulfilled with undefined) never does
TaskJoinStrict(t) ==
    /\ tasks[t].pc = "join"
    /\ \A i \in 1..Len(tasks[t].children) :
          /\ tasks[tasks[t].children[i]].state = "fulfilled"
          /\ tasks[tasks[t].children[i]].value # Undefined
    /\ LET results == [i \in 1..Len(tasks[t].children) |-> tasks[tasks[t].children[i]].value]
           merged == AssignAll(EmptyMap, results)
       IN  tasks' = [tasks EXCEPT ![t] =
               [@ EXCEPT !.pc = "done", !.state = "fulfilled",
                         !.value = Obj(walkDeclsInto(merged, DeclsOfTask(t))),
                         !.order = SettleOrder]]
    /\ UNCHANGED <<wvars, vvars, work, inputs, built, descriptors, foldIdx, foldPc, foldTask, acc,
                   resolvedAs, lint>>

\* Promise.all(importPromises) fulfils: the mappings are merged in the order
\* of the array, then the root's own declarations are written
TaskJoin(t) ==
    /\ tasks[t].pc = "join"
    /\ \A i \in 1..Len(tasks[t].children) : Settled(tasks[t].children[i])
    /\ LET results == [i \in 1..Len(tasks[t].children) |-> tasks[tasks[t].children[i]].value]
           merged == AssignAll(EmptyMap, results)
       IN  tasks' = [tasks EXCEPT ![t] =
               [@ EXCEPT !.pc = "done", !.state = "fulfilled",
                         !.value = Obj(walkDeclsInto(merged, DeclsOfTask(t))),
                         !.order = SettleOrder]]
    /\ UNCHANGED <<wvars, vvars, work, inputs, built, descriptors, foldIdx, foldPc, foldTask, acc,
                   resolvedAs, lint>>

\* a variant: the lint callback itself starts the resolution of the sources,
\* so that every stylesheet has its own
LintStartResolving(k) ==
    /\ built
    /\ lint[k].pc = "idle"
    /\ lint' = [lint EXCEPT ![k] =
           IF ~isMethodValid(method) THEN [@ EXCEPT !.pc = "done", !.invalidOptions = 1]
           ELSE IF ~isMethodEnabled(method) THEN [@ EXCEPT !.pc = "done"]
           ELSE [@ EXCEPT !.pc = "awaitShared"]]
    /\ foldPc \in {"done", "off"}
    /\ IF isMethodEnabled(method)
       THEN /\ foldIdx' = 1
            /\ foldPc' = IF Len(descriptors) = 0 THEN "done" ELSE "next"
            /\ work' = work \o SelectSeq([i \in 1..Len(importFrom) |-> Ev("invoke", i)],
                                          LAMBDA e : importFrom[e.src].t = "function")
       ELSE UNCHANGED <<foldIdx, foldPc, work>>
    /\ UNCHANGED <<wvars, vvars, inputs, built, descriptors, foldTask, acc, resolvedAs, tasks>>

\* the lint callback starts: validateOptions, then the test of the method
LintStart(k) ==
    /\ built
    /\ lint[k].pc = "idle"
    /\ lint' = [lint EXCEPT ![k] =
           IF ~isMethodValid(method) THEN [@ EXCEPT !.pc = "done", !.invalidOptions = 1]
           ELSE IF ~isMethodEnabled(method) THEN [@ EXCEPT !.pc = "done"]
           ELSE [@ EXCEPT !.pc = "awaitShared"]]
    /\ UNCHANGED <<wvars, vvars, work, inputs, built, descriptors, foldIdx, foldPc, foldTask, acc,
                   resolvedAs, tasks>>

\* await customPropertiesPromise settles: a rejection rejects the callback;
\* otherwise getCustomPropertiesFromRoot(root, resolver) starts the loads of
\* the stylesheet's imports
LintAwaited(k) ==
    /\ lint[k].pc = "awaitShared"
    /\ foldPc \in {"done", "failed"}
    /\ IF foldPc = "failed"
       THEN /\ lint' = [lint EXCEPT ![k].pc = "rejected"]
            /\ UNCHANGED tasks
       ELSE LET new == ImportTasks(sheets[k].imports, SourceDir(sheets[k].file))
                root == [Task("root", "join", <<>>, <<>>, sheets[k].file, k)
                            EXCEPT !.children = [i \in 1..Len(new) |-> Len(tasks) + 1 + i]]
            IN  /\ Len(tasks) + 1 + Len(new) <= MaxTasks
                /\ tasks' = Append(tasks, root) \o new
                /\ lint' = [lint EXCEPT ![k].pc = "awaitRoot", ![k].task = Len(tasks) + 1]
    /\ UNCHANGED <<wvars, vvars, work, inputs, built, descriptors, foldIdx, foldPc, foldTask, acc, resolvedAs>>

\* the stylesheet's own resolution fulfils: Object.assign(await
\* customPropertiesPromise, ...) writes it into the accumulator object, and
\* validateResult runs on the result
LintFinish(k) ==
    /\ lint[k].pc = "awaitRoot"
    /\ tasks[lint[k].task].state = "fulfilled"
    /\ LET customProperties == ObjectAssign(acc, tasks[lint[k].task].value)
           r == validateResult(sheets[k].decls, customProperties)
       IN  /\ acc' = customProperties
           /\ lint' = [lint EXCEPT ![k] =
                  [@ EXCEPT !.pc = IF r.ok THEN "done" ELSE "rejected",
                            !.validated = TRUE,
                            !.used = customProperties,
                            !.warnings = r.out]]
    /\ UNCHANGED <<wvars, vvars, work, inputs, built, descriptors, foldIdx, foldPc, foldTask, resolvedAs, tasks>>

(***************************************************************************)
(* The inputs of the rule.                                                 *)
(***************************************************************************)
\* "..." and '...' around an @import parameter; "./name" for "/name"
Quoted(text) == <<34>> \o text \o <<34>>
SingleQuoted(text) == <<39>> \o text \o <<39>>
Rel(path) == <<46>> \o path

\* --name: v;
CustomDecl(id, name, v) == Decl(id, name, <<Word(v)>>)
\* color: var(--name);
UseDecl(id, name) == Decl(id, TxtColor, <<Func(TxtVar, <<Word(name)>>)>>)
\* color: var(--name, var(--other));
UseDeclFallback(id, name, other) ==
    Decl(id, TxtColor,
         <<Func(TxtVar, <<Word(name), Comma, Func(TxtVar, <<Word(other)>>)>>)>>)

\* the configuration values tried: true, false, null, 2, "true", undefined
Methods ==
    {[t |-> "boolean", v |-> "true"], [t |-> "boolean", v |-> "false"],
     [t |-> "null", v |-> "null"], [t |-> "number", v |-> "2"],
     [t |-> "string", v |-> "true"], [t |-> "undefined", v |-> "undefined"]}

MethodTrue == [t |-> "boolean", v |-> "true"]

\* the declarations of a file whose values are v: none, one name, a name
\* declared twice, or another name and an ordinary declaration
FileDecls(v) ==
    {<<>>,
     <<CustomDecl(1, NameA, v)>>,
     <<CustomDecl(1, NameA, <<48>>), CustomDecl(2, NameA, v)>>,
     <<CustomDecl(1, NameB, v), Decl(2, TxtColor, <<Word(TxtRed)>>)>>}

\* /b.css: unreadable, unparsable, or CSS that imports nothing, /c.css
\* (relatively or absolutely) or itself
ContentsB ==
    {Unreadable, BadFile} \cup
    {CssFile(i, d) :
        i \in {<<>>, <<Quoted(Rel(PathC))>>, <<SingleQuoted(PathC)>>, <<Quoted(Rel(PathB))>>},
        d \in FileDecls(<<50>>)}

\* /c.css: unparsable, or CSS that imports nothing or /b.css
ContentsC ==
    {BadFile} \cup
    {CssFile(i, d) : i \in {<<>>, <<Quoted(Rel(PathB))>>}, d \in FileDecls(<<51>>)}

\* the file systems of the import graphs: /b.css, and /c.css or no /c.css
GraphFiles ==
    {(PathB :> b) : b \in ContentsB} \cup
    {(PathB :> b) @@ (PathC :> c) : b \in ContentsB, c \in ContentsC}

\* the @import lists of the linted stylesheet: b.css is a bare module id and
\* ./x.css names no file
SheetImports ==
    {<<>>,
     <<Quoted(Rel(PathB))>>,
     <<Quoted(Rel(PathB)), SingleQuoted(PathC)>>,
     <<Quoted(Rel(PathC)), Quoted(Rel(PathB))>>,
     <<Quoted(Rel(PathX)), Quoted(Rel(PathB))>>,
     <<Quoted(Tail(PathB)), SingleQuoted(PathX)>>}

\* the declarations of the linted stylesheet: its own --a or none, then uses
SheetDecls ==
    {own \o use :
        own \in {<<>>, <<CustomDecl(1, NameA, <<52>>)>>},
        use \in {<<UseDecl(2, NameA)>>,
                 <<UseDeclFallback(2, NameB, NameA)>>,
                 <<UseDecl(2, NameA), UseDecl(3, NameB)>>}}

\* the file system of the configured sources: /a.css imports /b.css, /j.json
\* and /m.js hold objects, /k.json is not JSON, /x.css is no file
PathK == <<47, 107, 46, 106, 115, 111, 110>>

SourceFiles ==
    (PathA :> CssFile(<<Quoted(Rel(PathB))>>, <<CustomDecl(1, NameA, <<49>>)>>))
    @@ (PathB :> CssFile(<<>>, <<CustomDecl(1, NameB, <<50>>)>>))
    @@ (PathJ :> ObjectFile("customProperties" :> (NameA :> <<53>>)))
    @@ (PathM :> ObjectFile("custom-properties" :> (NameB :> <<54>>)))
    @@ (PathK :> BadFile)

\* the sources tried: paths of each type, an object with a from field and an
\* upper-case type, an object carrying its properties, and two that fail
SourceChoices ==
    {StrSource(PathA), StrSource(PathJ), StrSource(PathM),
     ObjSource(("from" :> PathB) @@ ("type" :> <<67, 83, 83>>)),
     ObjSource("customProperties" :> (NameA :> <<55>>)),
     StrSource(PathX), StrSource(PathK)}

RECURSIVE SeqsUpTo(_, _)
\* the sequences over S of length at most n
SeqsUpTo(S, n) ==
    IF n = 0 THEN {<<>>}
    ELSE SeqsUpTo(S, n - 1) \cup
         {Append(q, x) : q \in {r \in SeqsUpTo(S, n - 1) : Len(r) = n - 1}, x \in S}

\* the stylesheets linted with sources: /s.css uses --a and --b, and has its
\* own --a or not; /t.css, linted before or beside it, declares --b
SheetS(own) ==
    Sheet(PathS, <<>>, own \o <<UseDecl(2, NameA), UseDecl(3, NameB)>>)

SheetT == Sheet(PathT, <<>>, <<CustomDecl(1, NameB, <<57>>), UseDecl(2, NameB)>>)

SourceSheets ==
    {<<SheetS(own)>> : own \in {<<>>, <<CustomDecl(1, NameA, <<52>>)>>}}
    \cup {<<SheetT, SheetS(<<>>)>>}

IdleLint == [pc |-> "idle", task |-> 0, invalidOptions |-> 0, validated |-> FALSE,
             used |-> EmptyMap, warnings |-> <<>>]

\* before the rule function is called
Unbuilt ==
    /\ built = FALSE
    /\ descriptors = <<>>
    /\ foldIdx = 1
    /\ foldPc = "none"
    /\ foldTask = 0
    /\ acc = EmptyMap
    /\ resolvedAs = EmptyMap
    /\ tasks = <<>>
    /\ lint = [k \in 1..Len(sheets) |-> IdleLint]
    /\ work = <<>>

\* import graphs: one stylesheet, no sources
InitGraphs ==
    /\ method = MethodTrue
    /\ importFrom = <<>>
    /\ files \in GraphFiles
    /\ sheets \in {<<Sheet(PathS, i, d)>> : i \in SheetImports, d \in SheetDecls}

\* configured sources: up to MaxSources of them, one or two stylesheets
InitSources ==
    /\ method = MethodTrue
    /\ importFrom \in SeqsUpTo(SourceChoices, MaxSources)
    /\ files = SourceFiles
    /\ sheets \in SourceSheets

\* configuration values
InitMethods ==
    /\ method \in Methods
    /\ importFrom \in {<<>>, <<StrSource(PathA)>>}
    /\ files = SourceFiles
    /\ sheets \in {<<SheetS(<<>>)>>, <<SheetT, SheetS(<<>>)>>}

\* the sources that are factories or promises: a factory returning a bare
\* path, an object with a from field and no type, an object carrying its
\* properties, a {type, from} descriptor, a promise of a descriptor; a promise
\* of an object carrying properties; and a path configured directly
FactoryChoices ==
    {FnSource(StrSource(PathA)),
     FnSource(ObjSource("from" :> PathJ)),
     FnSource(ObjSource("customProperties" :> (NameA :> <<56>>))),
     FnSource(ObjSource(("type" :> TxtCss) @@ ("from" :> PathB))),
     FnSource(PromiseOf(ObjSource(("type" :> TxtJson) @@ ("from" :> PathJ)))),
     PromiseOf(ObjSource("custom-properties" :> (NameB :> <<54>>))),
     StrSource(PathM)}

\* factories and promises as sources, one or two stylesheets
InitFactories ==
    /\ method = MethodTrue
    /\ importFrom \in SeqsUpTo(FactoryChoices, MaxSources)
    /\ files = SourceFiles
    /\ sheets \in {<<SheetS(<<>>)>>, <<SheetT, SheetS(<<>>)>>}

\* the validator's variables while the rule is run
ValidatorIdle ==
    /\ vDecl = Decl(1, TxtColor, <<>>)
    /\ vMap = EmptyMap
    /\ vResult = Nothing
    /\ vPc = "off"

\* the declaration walk's variables while the rule or the validator is run
WalkIdle ==
    /\ wProp = <<>>
    /\ wOut = EmptyMap
    /\ wPc = "off"

Init ==
    /\ InitGraphs \/ InitSources \/ InitMethods \/ InitFactories
    /\ Unbuilt
    /\ ValidatorIdle
    /\ WalkIdle

Next ==
    \/ Construct
    \/ FoldStart
    \/ FoldLoaded
    \/ FoldCss
    \/ \E t \in 1..Len(tasks) : TaskResolve(t)
    \/ \E t \in 1..Len(tasks) : TaskRead(t)
    \/ \E t \in 1..Len(tasks) : TaskJoin(t)
    \/ \E k \in 1..Len(sheets) : LintStart(k)
    \/ \E k \in 1..Len(sheets) : LintAwaited(k)
    \/ \E k \in 1..Len(sheets) : LintFinish(k)

Spec == Init /\ [][Next]_vars

\* the steps the event loop takes by itself: continuations of settled reads,
\* resolutions and promises (Construct and LintStart are the host's)
Progress ==
    \/ FoldStart
    \/ FoldLoaded
    \/ FoldCss
    \/ \E t \in 1..Len(tasks) : TaskResolve(t)
    \/ \E t \in 1..Len(tasks) : TaskRead(t)
    \/ \E t \in 1..Len(tasks) : TaskJoin(t)
    \/ \E k \in 1..Len(sheets) : LintAwaited(k)
    \/ \E k \in 1..Len(sheets) : LintFinish(k)

\* import graphs, for the runs to completion: one stylesheet with one use
InitLGraphs ==
    /\ method = MethodTrue
    /\ importFrom = <<>>
    /\ files \in GraphFiles
    /\ sheets \in {<<Sheet(PathS, i, <<UseDecl(2, NameA)>>)>> : i \in SheetImports}

InitL ==
    /\ InitLGraphs \/ InitSources \/ InitFactories
    /\ Unbuilt
    /\ ValidatorIdle
    /\ WalkIdle

\* every read and resolution settles and every ready continuation is run: a
\* step of the event loop that can be taken is eventually taken
SpecL == InitL /\ [][Next]_vars /\ WF_vars(Progress)

\* the rule's variables while the validator is applied on its own
RuleIdle ==
    /\ method = [t |-> "null", v |-> "null"]
    /\ importFrom = <<>>
    /\ files = EmptyMap
    /\ sheets = <<>>
    /\ Unbuilt

VInit == VInputs /\ RuleIdle /\ WalkIdle

VNext == Validate

SpecV == VInit /\ [][VNext]_vars

(***************************************************************************)
(* The declaration walk of getCustomPropertiesFromRoot applied to a root   *)
(* with no @import and one declaration, over property names up to MaxName  *)
(* characters.                                                             *)
(***************************************************************************)
\* the characters of the names: - 1 Z [ ^ _ ` a
PropChars == {45, 49, 90, 91, 94, 95, 96, 97}

PropNames == SeqsUpTo(PropChars, MaxName)

WInputs ==
    /\ wProp \in PropNames
    /\ wOut = EmptyMap
    /\ wPc = "ready"

\* root.walkDecls(customPropertyRegExp, ...) on the root, from the empty
\* mapping of a root with no imports
WalkDecls ==
    /\ wPc = "ready"
    /\ wOut' = walkDeclsInto(EmptyMap, <<CustomDecl(1, wProp, <<49>>)>>)
    /\ wPc' = "done"
    /\ UNCHANGED <<wProp, svars, vvars>>

WInit == WInputs /\ RuleIdle /\ ValidatorIdle

WNext == WalkDecls

SpecW == WInit /\ [][WNext]_vars

(***************************************************************************)
(* Vocabulary of the claims about the validator.                           *)
(***************************************************************************)
\* a var() call whose first child is a variable token
IsVarRef(node) ==
    /\ node.type = "func"
    /\ node.name = TxtVar
    /\ Len(node.nodes) > 0
    /\ node.nodes[1].type = "word"
    /\ Len(node.nodes[1].value) > 2
    /\ SubSeq(node.nodes[1].value, 1, 2) = <<45, 45>>

RefName(node) == node.nodes[1].value

RECURSIVE AllItems(_)
\* every node of a value tree, with its position
AllItems(items) ==
    UNION {{items[i]} \cup AllItems(Items(NodesOf(items[i].node), items[i].at)) :
              i \in 1..Len(items)}

VCalls == {c \in AllItems(Items(vDecl.ast, <<>>)) : IsVarRef(c.node)}

IsPrefix(p, q) == Len(p) <= Len(q) /\ SubSeq(q, 1, Len(p)) = p

\* p lies strictly inside q's subtree
Inside(p, q) == IsPrefix(q, p) /\ p # q

\* the reports made at position p / at p or inside it
ReportsAt(p) == {i \in 1..Len(vResult.out) : vResult.out[i].at = p}
ReportsWithin(p) == {i \in 1..Len(vResult.out) : IsPrefix(p, vResult.out[i].at)}

\* the report the rule is to make for name N in the declaration
ExpectedReport(N) ==
    [message |-> <<"Unexpected custom property \"", N,
                   "\" inside declaration \"", vDecl.prop, "\".">>,
     node |-> vDecl.id,
     ruleName |-> "csstools/value-no-unknown-custom-properties",
     word |-> N]

Unknown(c) == RefName(c.node) \notin DOMAIN vMap

\* c is a var() call in the fallback arguments (third child on) of d
InFallbackOf(c, d) ==
    /\ Inside(c.at, d.at)
    /\ c.at[Len(d.at) + 1] >= 3

\* the walk comes to c: every var() reference around c has an unknown name and
\* has c's branch as one of its own fallback arguments, itself a var() reference
Visited(c) ==
    \A d \in VCalls :
        Inside(c.at, d.at) =>
            /\ Unknown(d)
            /\ \E e \in VCalls :
                  /\ e.at = SubSeq(c.at, 1, Len(d.at) + 1)
                  /\ InFallbackOf(e, d)

\* the one report at c is the expected one
OneReport(c) ==
    /\ Cardinality(ReportsAt(c.at)) = 1
    /\ \A i \in ReportsAt(c.at) : vResult.out[i].report = ExpectedReport(RefName(c.node))

C2_KnownNameSilent ==
    vPc = "done" =>
        /\ \A c \in VCalls : ~Unknown(c) => ReportsWithin(c.at) = {}
        /\ (IsVarRef(vDecl.ast[1]) /\ RefName(vDecl.ast[1]) \in DOMAIN vMap)
               => vResult = [ok |-> TRUE, out |-> <<>>]

\* C2 witness: var(--a, var(--b)) validated with --a known and --b unknown
C2_Witness ==
    /\ vPc = "done"
    /\ vDecl.ast = <<Func(TxtVar, <<Word(NameA), Comma, Func(TxtVar, <<Word(NameB)>>)>>)>>
    /\ NameA \in DOMAIN vMap
    /\ NameB \notin DOMAIN vMap

RECURSIVE IsChain(_)
\* var(--n1, var(--n2, ... var(--nk)))
IsChain(node) ==
    /\ IsVarRef(node)
    /\ \/ Len(node.nodes) = 1
       \/ /\ Len(node.nodes) = 3
          /\ node.nodes[2] = Comma
          /\ IsChain(node.nodes[3])

RECURSIVE ChainNames(_)
\* n1..nk, outermost first
ChainNames(node) ==
    IF Len(node.nodes) = 1 THEN <<RefName(node)>>
    ELSE <<RefName(node)>> \o ChainNames(node.nodes[3])

\* the position of the k-th call of a chain that is the whole value
ChainAt(k) == <<1>> \o [i \in 1..(k - 1) |-> 3]

\* C3: for a chain of nested var() fallbacks none of whose names is known,
\* exactly one diagnostic is made: for the innermost name, at the innermost
\* call, and none for an outer name.
C3_ChainReportsInnermost ==
    (vPc = "done" /\ IsChain(vDecl.ast[1])
       /\ \A i \in 1..Len(ChainNames(vDecl.ast[1])) :
             ChainNames(vDecl.ast[1])[i] \notin DOMAIN vMap) =>
        LET names == ChainNames(vDecl.ast[1])
        IN  /\ vResult.ok
            /\ Len(vResult.out) = 1
            /\ vResult.out[1].at = ChainAt(Len(names))
            /\ vResult.out[1].report = ExpectedReport(names[Len(names)])

\* C3 witness: var(--a, var(--a, var(--b))) validated with no name known
C3_Witness ==
    /\ vPc = "done"
    /\ IsChain(vDecl.ast[1])
    /\ ChainNames(vDecl.ast[1]) = <<NameA, NameA, NameB>>
    /\ DOMAIN vMap = {}

\* C4: every var() call with an unknown name (here: one outside the arguments
\* of any other var() call, in a validation that does not raise) gets at
\* least one diagnostic, for its own name or for a name nested in its
\* fallbacks, unless its fallback arguments contain a var() call with a known
\* name; a literal fallback, or a non-var function around an unknown var(),
\* does not suppress the report.
C4_UnknownReportedUnlessKnownFallback ==
    (vPc = "done" /\ vResult.ok) =>
        \A c \in VCalls :
            (Unknown(c) /\ \A d \in VCalls : ~Inside(c.at, d.at)) =>
                \/ ReportsWithin(c.at) # {}
                \/ \E e \in VCalls : InFallbackOf(e, c) /\ ~Unknown(e)

(***************************************************************************)
(* Vocabulary of the claims about the resolver and the rule.               *)
(***************************************************************************)
Names == {NameA, NameB}

\* m2 over m1: key-wise union, m2 winning
Over(m1, m2) ==
    [n \in DOMAIN m1 \cup DOMAIN m2 |-> IF n \in DOMAIN m2 THEN m2[n] ELSE m1[n]]

\* the names a list of declarations declares, each with its last value
LastDeclared(decls) ==
    LET declaring(n) == {i \in 1..Len(decls) : decls[i].prop = n}
    IN  [n \in {m \in Names : declaring(m) # {}} |->
            decls[CHOOSE i \in declaring(n) : \A j \in declaring(n) : j <= i].value]

RECURSIVE OverAll(_)
OverAll(ms) == IF ms = <<>> THEN EmptyMap ELSE Over(OverAll(SubSeq(ms, 1, Len(ms) - 1)), ms[Len(ms)])

RECURSIVE VisibleFile(_, _)
RECURSIVE VisibleRoot(_, _, _, _)
\* what a root makes visible: its imports' mappings, later over earlier, under
\* its own declarations; an import that cannot be resolved, read or parsed
\* gives nothing (depth is the nesting still followed)
VisibleRoot(imports, decls, dir, depth) ==
    LET target(i) ==
            LET id == StripQuotes(imports[i])
            IN  IF isAbsolute(id) THEN id
                ELSE IF resolveId(id, dir).ok THEN resolveId(id, dir).path
                ELSE <<>>
    IN  Over(OverAll([i \in 1..Len(imports) |-> VisibleFile(target(i), depth)]),
             LastDeclared(decls))

VisibleFile(path, depth) ==
    IF depth = 0 \/ path \notin DOMAIN files \/ files[path].kind # "css" THEN EmptyMap
    ELSE VisibleRoot(files[path].imports, files[path].decls, dirname(path), depth - 1)

\* the loads that went through getCustomPropertiesFromRoot and returned
Returned(t) ==
    /\ tasks[t].state = "fulfilled"
    /\ tasks[t].kind = "root" \/ (tasks[t].file \in DOMAIN files /\ files[tasks[t].file].kind = "css")

\* the declarations and @imports of the root of a returned load
RootDecls(t) ==
    IF tasks[t].kind = "root" THEN sheets[tasks[t].sheet].decls ELSE files[tasks[t].file].decls
RootImports(t) ==
    IF tasks[t].kind = "root" THEN sheets[tasks[t].sheet].imports ELSE files[tasks[t].file].imports

\* the loads below t, directly or transitively
RECURSIVE Below(_, _)
Below(t, depth) ==
    IF depth = 0 THEN {}
    ELSE LET kids == {tasks[t].children[i] : i \in 1..Len(tasks[t].children)}
         IN  kids \cup UNION {Below(c, depth - 1) : c \in kids}

\* C6: the mapping getCustomPropertiesFromRoot returns for a file A holds, for
\* every name A declares itself, A's own last declared value, whatever its
\* direct or transitive imports declare for that name.
C6_OwnDeclarationsWin ==
    \A t \in 1..Len(tasks) :
        Returned(t) =>
            \A n \in DOMAIN LastDeclared(RootDecls(t)) :
                /\ n \in DOMAIN tasks[t].value.m
                /\ tasks[t].value.m[n] = LastDeclared(RootDecls(t))[n]

\* C6 witness: a returned root that declares a name, an import of it that
\* declares the name twice, and an import of that import, with three values
C6_Witness ==
    \E t \in 1..Len(tasks) :
        /\ Returned(t)
        /\ \E n \in DOMAIN LastDeclared(RootDecls(t)) :
              \E c \in Below(t, 1) :
                  \E g \in Below(c, 1) :
                      /\ Returned(c) /\ Returned(g)
                      /\ Cardinality({i \in 1..Len(RootDecls(c)) : RootDecls(c)[i].prop = n}) = 2
                      /\ n \in DOMAIN tasks[g].value.m
                      /\ tasks[c].value.m[n] # tasks[t].value.m[n]
                      /\ tasks[g].value.m[n] # tasks[c].value.m[n]
                      /\ tasks[g].value.m[n] # tasks[t].value.m[n]

RECURSIVE Unsatisfied(_, _)
\* the names of a value tree that remain unsatisfied under mapping m: an
\* unknown name with no fallback, or the unsatisfied names of its var()
\* fallbacks
Unsatisfied(node, m) ==
    IF IsVarRef(node)
    THEN IF RefName(node) \in DOMAIN m THEN {}
         ELSE IF Len(node.nodes) <= 2 THEN {RefName(node)}
         ELSE UNION {Unsatisfied(node.nodes[i], m) :
                        i \in {j \in 3..Len(node.nodes) : IsVarRef(node.nodes[j])}}
    ELSE UNION {Unsatisfied(NodesOf(node)[i], m) : i \in 1..Len(NodesOf(node))}

\* the (declaration, word) pairs to report for a stylesheet under mapping m
ToReport(decls, m) ==
    UNION {{<<decls[i].id, n>> : n \in Unsatisfied([type |-> "root", nodes |-> decls[i].ast], m)} :
              i \in 1..Len(decls)}

\* the (declaration, word) pairs lint k reported
Reported(k) ==
    {<<lint[k].warnings[i].report.node, lint[k].warnings[i].report.word>> :
        i \in 1..Len(lint[k].warnings)}

\* an import load that found no file, or a file that cannot be read or parsed
Broken(t) ==
    /\ tasks[t].kind \in {"rel", "abs"}
    /\ tasks[t].pc = "done"
    /\ tasks[t].file \notin DOMAIN files \/ files[tasks[t].file].kind # "css"

\* C7: an @import that cannot be resolved, read or parsed contributes an empty
\* mapping and no error propagates: no import load and no root resolution
\* rejects; every root that returns returns what its other imports and its own
\* declarations make visible; a lint callback is rejected only by the
\* configured sources, and one that validated reported exactly the references
\* unsatisfied in the mapping it used.
C7_BrokenImportContributesNothing ==
    /\ \A t \in 1..Len(tasks) :
          /\ tasks[t].kind # "src" => tasks[t].state # "rejected"
          /\ Broken(t) =>
                /\ tasks[t].state = "fulfilled"
                /\ ObjectAssign(EmptyMap, tasks[t].value) = EmptyMap
          /\ Returned(t) =>
                tasks[t].value.m =
                    VisibleRoot(RootImports(t), RootDecls(t), SourceDir(tasks[t].file), MaxTasks)
    /\ \A k \in 1..Len(sheets) :
          /\ lint[k].pc = "rejected" => foldPc = "failed"
          /\ lint[k].validated =>
                /\ lint[k].pc = "done"
                /\ Reported(k) = ToReport(sheets[k].decls, lint[k].used)

\* C7 witness: a stylesheet has validated and reported, one of its imports named
\* no file and another one returned a name
C7_Witness ==
    \E k \in 1..Len(sheets) :
        /\ lint[k].validated
        /\ Reported(k) # {}
        /\ \E c, d \in Below(lint[k].task, 1) :
              /\ Broken(c)
              /\ tasks[c].value = Undefined
              /\ Returned(d)
              /\ DOMAIN tasks[d].value.m # {}
              /\ DOMAIN tasks[d].value.m \subseteq DOMAIN lint[k].used
        /\ \E g \in Below(lint[k].task, 2) : Broken(g) /\ tasks[g].value = Obj(EmptyMap)

\* C8: a configured source of type css, json or js whose load fails resolves to
\* an empty mapping: the promise of getCustomPropertiesFromSources is never
\* rejected and no lint callback is.
C8_FailedSourceContributesNothing ==
    /\ foldPc # "failed"
    /\ \A k \in 1..Len(sheets) : lint[k].pc # "rejected"

\* C9: once the shared mapping of the configured sources has resolved, nothing
\* changes it: it keeps the keys and values it had when it first resolved.
C9_SharedMappingReadOnly ==
    foldPc = "done" => acc = resolvedAs

\* the configuration value is none of true, false, null
InvalidMethod == method.t \notin {"boolean", "null"}

\* C10: with the value false or null, no stylesheet gets any diagnostic and no
\* source resolution starts; with a value other than true, false and null,
\* each processed stylesheet gets one invalid-configuration report, the
\* validator does not run and there is no validation diagnostic.
C10_DisabledAndInvalidMethods ==
    /\ (method.t = "null" \/ (method.t = "boolean" /\ method.v = "false")) =>
          /\ foldPc \in {"none", "off"} /\ descriptors = <<>> /\ tasks = <<>>
          /\ \A k \in 1..Len(sheets) :
                lint[k].warnings = <<>> /\ lint[k].invalidOptions = 0 /\ ~lint[k].validated
    /\ InvalidMethod =>
          /\ foldPc \in {"none", "off"} /\ tasks = <<>>
          /\ \A k \in 1..Len(sheets) :
                /\ lint[k].pc \in {"idle", "done"}
                /\ lint[k].invalidOptions = (IF lint[k].pc = "done" THEN 1 ELSE 0)
                /\ lint[k].warnings = <<>> /\ ~lint[k].validated

\* C10 witness: under the value 2, two stylesheets with references to unknown
\* names have been processed
C10_Witness ==
    /\ method = [t |-> "number", v |-> "2"]
    /\ Len(sheets) = 2
    /\ \A k \in 1..Len(sheets) : lint[k].pc = "done"

\* whether a configured source loads, and the mapping it then defines
SourcePath(source) == IF source.t = "string" THEN source.s ELSE source.o["from"]

SourceCarries(source) == source.t = "object" /\ "customProperties" \in DOMAIN source.o

SourceOk(source) == SourceCarries(source) \/ SourcePath(source) \in DOMAIN files

SourceDefines(source) ==
    IF SourceCarries(source) THEN source.o["customProperties"]
    ELSE LET file == files[SourcePath(source)]
         IN  IF file.kind = "css" THEN VisibleFile(SourcePath(source), MaxTasks)
             ELSE IF file.kind = "object"
             THEN Over(IF "customProperties" \in DOMAIN file.o
                       THEN file.o["customProperties"] ELSE EmptyMap,
                       IF "custom-properties" \in DOMAIN file.o
                       THEN file.o["custom-properties"] ELSE EmptyMap)
             ELSE EmptyMap

SourcesAllLoad ==
    \A i \in 1..Len(importFrom) :
        /\ importFrom[i].t \in {"string", "object"}
        /\ SourceOk(importFrom[i])
        /\ SourceCarries(importFrom[i]) \/ files[SourcePath(importFrom[i])].kind # "bad"

\* the sources that define name n
Defining(n) == {i \in 1..Len(importFrom) : n \in DOMAIN SourceDefines(importFrom[i])}

\* C5: when all configured sources load, the mapping a stylesheet S is
\* validated with gives each name the value of S's own declarations if S
\* declares it, and otherwise that of the highest-indexed source defining it.
C5_SourcePrecedence ==
    SourcesAllLoad =>
        \A k \in 1..Len(sheets) :
            lint[k].validated =>
                \A n \in Names :
                    IF n \in DOMAIN LastDeclared(sheets[k].decls)
                    THEN /\ n \in DOMAIN lint[k].used
                         /\ lint[k].used[n] = LastDeclared(sheets[k].decls)[n]
                    ELSE Defining(n) # {} =>
                         /\ n \in DOMAIN lint[k].used
                         /\ lint[k].used[n] =
                               SourceDefines(importFrom[
                                   CHOOSE i \in Defining(n) : \A j \in Defining(n) : j <= i])[n]

(***************************************************************************)
(* Vocabulary of the claims about the resolution of the sources.           *)
(***************************************************************************)
\* how many times the work of a kind was done for source i
Count(kind, i) == Cardinality({p \in 1..Len(work) : work[p] = Ev(kind, i)})

\* the loads of configured CSS sources that were started
SourceLoads == {t \in 1..Len(tasks) : tasks[t].kind = "src"}

\* C11: under the value true, the resolution of the sources is started at rule
\* construction, once: when the rule is built every factory has been invoked
\* once, and no source is ever invoked, loaded or folded a second time,
\* however many stylesheets are processed; a stylesheet is processed only
\* after the resolution was started, and goes on to its own resolution only
\* when that one resolution has completed.
C11_ResolutionStartedOnce ==
    isMethodEnabled(method) =>
        /\ \A i \in 1..Len(importFrom) :
              /\ Count("invoke", i) = (IF built /\ importFrom[i].t = "function" THEN 1 ELSE 0)
              /\ Count("start", i) <= 1
              /\ Count("fold", i) <= 1
        /\ Cardinality(SourceLoads) <= Cardinality({i \in 1..Len(importFrom) : Count("start", i) = 1})
        /\ \A k \in 1..Len(sheets) :
              /\ lint[k].pc # "idle" => (built /\ foldPc # "none")
              /\ (lint[k].pc = "awaitRoot" \/ lint[k].validated) => foldPc = "done"

\* C11 witness: two stylesheets have been validated by a rule whose sources
\* are a factory whose CSS file was loaded and a module
C11_Witness ==
    /\ Len(sheets) = 2
    /\ \A k \in 1..Len(sheets) : lint[k].validated
    /\ Len(importFrom) = 2
    /\ \E i \in 1..Len(importFrom) :
          importFrom[i].t = "function" /\ Count("start", i) = 1 /\ SourceLoads # {}
    /\ \E i \in 1..Len(importFrom) : importFrom[i] = StrSource(PathM)

\* the mapping a stylesheet is to be validated with: what the configured
\* sources resolved to, under what the stylesheet and its imports make visible
FreshMapping(k) ==
    Over(resolvedAs,
         VisibleRoot(sheets[k].imports, sheets[k].decls, SourceDir(sheets[k].file), MaxTasks))

Kids(t) == {tasks[t].children[i] : i \in 1..Len(tasks[t].children)}

\* the mapping an import load gave (nothing when it fulfilled with undefined)
ChildMap(c) == IF tasks[c].value.t = "undefined" THEN EmptyMap ELSE tasks[c].value.m

\* a load that is in getCustomPropertiesFromRoot, awaiting the loads of the
\* @imports
Joining(t) == tasks[t].pc = "join"

\* C13: in getCustomPropertiesFromRoot the loads of all @imports of the root
\* are started before any is awaited (while the root awaits, one load per
\* @import exists); nothing is merged until all have settled (a root with a
\* pending import load has no mapping and has not settled, and a root that
\* returned did so after every one of them settled); and the root's own
\* declarations are written over the merged mappings of the imports.
C13_ImportsJoinedBeforeMerge ==
    \A t \in 1..Len(tasks) :
        /\ (Joining(t) \/ Returned(t)) =>
              /\ Len(tasks[t].children) = Len(RootImports(t))
              /\ Kids(t) \subseteq 1..Len(tasks)
        /\ Joining(t) => (tasks[t].state = "pending" /\ tasks[t].value = Undefined)
        /\ Returned(t) =>
              /\ \A c \in Kids(t) : Settled(c) /\ tasks[c].order < tasks[t].order
              /\ tasks[t].value.m =
                    Over(OverAll([i \in 1..Len(tasks[t].children) |-> ChildMap(tasks[t].children[i])]),
                         LastDeclared(RootDecls(t)))

\* C13 witness: a root with two @imports returned; the load started second
\* settled first, both gave a name the root declares itself
C13_Witness ==
    \E t \in 1..Len(tasks) :
        /\ Returned(t)
        /\ Len(tasks[t].children) = 2
        /\ tasks[tasks[t].children[2]].order < tasks[tasks[t].children[1]].order
        /\ \E n \in DOMAIN LastDeclared(RootDecls(t)) :
              \A c \in Kids(t) : n \in DOMAIN ChildMap(c) /\ ChildMap(c)[n] # tasks[t].value.m[n]

\* the places in t's @import list of the loads that gave name n
Giving(t, n) == {i \in 1..Len(tasks[t].children) : n \in DOMAIN ChildMap(tasks[t].children[i])}

\* two sibling import loads of t gave n different values, and t's root does
\* not declare n
Contended(t, n) ==
    /\ Returned(t)
    /\ n \notin DOMAIN LastDeclared(RootDecls(t))
    /\ \E i, j \in Giving(t, n) :
          ChildMap(tasks[t].children[i])[n] # ChildMap(tasks[t].children[j])[n]

\* C14 (as claimed): the value of a contended name depends on the order in
\* which the loads complete: it is the value of the load that settled last.
C14_AsClaimed ==
    \A t \in 1..Len(tasks) : \A n \in Names :
        Contended(t, n) =>
            LET last == CHOOSE i \in Giving(t, n) :
                            \A j \in Giving(t, n) :
                                tasks[tasks[t].children[j]].order <= tasks[tasks[t].children[i]].order
            IN  tasks[t].value.m[n] = ChildMap(tasks[t].children[last])[n]

\* C14 (amended): the value of a contended name is that of the @import that
\* comes last in the root's @import list among those giving the name,
\* whatever the order in which the loads completed.
C14_SiblingImportsInListOrder ==
    \A t \in 1..Len(tasks) : \A n \in Names :
        Contended(t, n) =>
            LET last == CHOOSE i \in Giving(t, n) : \A j \in Giving(t, n) : j <= i
            IN  tasks[t].value.m[n] = ChildMap(tasks[t].children[last])[n]

\* C14 witness: a contended name whose first @import settled after the second
C14_Witness ==
    \E t \in 1..Len(tasks) : \E n \in Names :
        /\ Contended(t, n)
        /\ Giving(t, n) = {1, 2}
        /\ tasks[tasks[t].children[2]].order < tasks[tasks[t].children[1]].order

\* the work of a kind was done for source i before place p of the history
Before(p, kind, i) == \E q \in 1..(p - 1) : work[q] = Ev(kind, i)

\* C15 (as claimed): no work for a source after the first (invoking its
\* factory, starting to read its file or to load its module) begins until the
\* mapping of the source before it has been folded into the accumulator.
C15_AsClaimed ==
    \A p \in 1..Len(work) :
        (work[p].ev \in {"invoke", "start"} /\ work[p].src > 1) =>
            Before(p, "fold", work[p].src - 1)

\* C15 (amended): the factories are all invoked at rule construction, in the
\* order of the sources and before anything is read or folded; from then on
\* the sources are taken one at a time: the file of a source after the first
\* is not read, its module not loaded and its mapping not folded until the
\* mapping of the source before it has been folded.
C15_SequentialAfterInvocation ==
    \A p \in 1..Len(work) :
        /\ (work[p].ev \in {"start", "fold"} /\ work[p].src > 1) =>
              Before(p, "fold", work[p].src - 1)
        /\ work[p].ev = "invoke" =>
              \A q \in 1..(p - 1) : work[q].ev = "invoke" /\ work[q].src < work[p].src

\* C15 witness: a module and then a factory of a CSS file were configured, and
\* both were folded: the factory was invoked before the module was loaded
C15_Witness ==
    /\ Len(importFrom) = 2
    /\ importFrom[1] = StrSource(PathM)
    /\ foldPc = "done"
    /\ work = <<Ev("invoke", 2), Ev("start", 1), Ev("fold", 1), Ev("start", 2), Ev("fold", 2)>>

(***************************************************************************)
(* Vocabulary of the claims about the import graph.                        *)
(***************************************************************************)
\* the CSS files the @imports of a root in directory dir lead to: those that
\* resolve, can be read and parse
ImportTargets(imports, dir) ==
    LET target(i) ==
            LET id == StripQuotes(imports[i])
            IN  IF isAbsolute(id) THEN id
                ELSE IF resolveId(id, dir).ok THEN resolveId(id, dir).path
                ELSE <<>>
    IN  {p \in {target(i) : i \in 1..Len(imports)} : Parses(p)}

FileTargets(f) == ImportTargets(files[f].imports, dirname(f))

RECURSIVE Reach(_, _)
\* the files reached from those of S by following at most n @imports
Reach(S, n) ==
    IF n = 0 THEN S ELSE Reach(S \cup UNION {FileTargets(f) : f \in S}, n - 1)

\* the files reachable from S
Reachable(S) == Reach(S, Cardinality(DOMAIN files))

\* f imports itself, directly or through other files
OnCycle(f) == f \in Reachable(FileTargets(f))

\* the files reachable from stylesheet k
SheetFiles(k) == Reachable(ImportTargets(sheets[k].imports, SourceDir(sheets[k].file)))

\* the import graph reachable from stylesheet k has a cycle
SheetCyclic(k) == \E f \in SheetFiles(k) : OnCycle(f)

\* C16: when the import graph reachable from a stylesheet has a cycle of files
\* that resolve, can be read and parse, the resolution of the stylesheet never
\* settles and the stylesheet is never validated; there is no revisit guard:
\* every load that has read a file of the cycle has started a load for each
\* of its @imports, whether or not the file was read before.
C16_CycleNeverCompletes ==
    \A k \in 1..Len(sheets) :
        (isMethodEnabled(method) /\ SheetCyclic(k)) =>
            /\ ~lint[k].validated
            /\ lint[k].pc \in {"idle", "awaitShared", "awaitRoot"}
            /\ lint[k].task # 0 => tasks[lint[k].task].state = "pending"
            /\ \A t \in 1..Len(tasks) :
                  (tasks[t].kind # "root" /\ tasks[t].file \in SheetFiles(k) /\ OnCycle(tasks[t].file)) =>
                      /\ tasks[t].state = "pending"
                      /\ tasks[t].pc = "join" =>
                            Len(tasks[t].children) = Len(files[tasks[t].file].imports)

\* C16 witness: /b.css and /c.css import each other; the stylesheet awaits its
\* resolution, /b.css has been read twice and loads were started up to the
\* bound
C16_Witness ==
    /\ SheetCyclic(1)
    /\ lint[1].pc = "awaitRoot"
    /\ Len(tasks) = MaxTasks
    /\ PathC \in FileTargets(PathB) /\ PathB \in FileTargets(PathC)
    /\ Cardinality({t \in 1..Len(tasks) : tasks[t].file = PathB /\ tasks[t].pc = "join"}) >= 2

(***************************************************************************)
(* Vocabulary of the claims about factories.                               *)
(***************************************************************************)
\* the shape a source stands for: what a factory returns, fulfilled
Shape(source) == IF source.t = "function" THEN Awaited(source.returns) ELSE source

\* whether a shape configured directly in importFrom loads
LoadsAsConfigured(shape) ==
    LET d == NormalizeSource(shape)
    IN  CASE LoaderOf(d) = "css" -> Parses(d["from"])
          [] LoaderOf(d) \in {"js", "json"} -> Loads(d["from"])
          [] OTHER -> TRUE

\* the mapping a shape configured directly in importFrom contributes
AsConfigured(shape) ==
    LET d == NormalizeSource(shape)
    IN  CASE LoaderOf(d) = "css" -> VisibleFile(d["from"], MaxTasks)
          [] LoaderOf(d) \in {"js", "json"} -> getCustomPropertiesFromObject(files[d["from"]].o)
          [] OTHER -> getCustomPropertiesFromObject(d)

\* C17: a factory contributes the mapping the shape it returns (fulfilled, if
\* pending) would contribute when configured directly: when the sources are
\* factories and directly configured shapes that all load, the resolved
\* mapping is the fold, in order, of what the shapes contribute as configured.
C17_FactoryResultAsConfigured ==
    (/\ foldPc = "done"
     /\ \A i \in 1..Len(importFrom) :
           importFrom[i].t # "promise" /\ LoadsAsConfigured(Shape(importFrom[i]))) =>
        resolvedAs = OverAll([i \in 1..Len(importFrom) |-> AsConfigured(Shape(importFrom[i]))])

(***************************************************************************)
(* Vocabulary of the claim about the names captured.                       *)
(***************************************************************************)
\* a-z or A-Z
IsLetter(c) == c \in (65..90) \cup (97..122)

\* two dashes, a letter, then word characters or hyphens
IsCustomPropertyName(prop) ==
    /\ Len(prop) >= 3
    /\ prop[1] = 45
    /\ prop[2] = 45
    /\ IsLetter(prop[3])
    /\ \A i \in 4..Len(prop) : prop[i] \in WordChars \cup {45}

\* C18: a declaration of a resolved file is captured into the mapping if and
\* only if its property name is two dashes, a letter, then word characters or
\* hyphens; a name whose third character is an underscore, a digit or one of
\* [ \ ] ^ ` is not captured.
C18_CapturedIffLetterPattern ==
    wPc = "done" => (wProp \in DOMAIN wOut <=> IsCustomPropertyName(wProp))

\* C19: validation of a declaration ends without raising for every value tree,
\* and a var() with no children in a value that passes the textual guard is
\* passed over as a non-reference: it gets no diagnostic and the walk goes on.
C19_ValidationNeverRaises ==
    vPc = "done" => vResult.ok

(***************************************************************************)
(* Vocabulary of the claim about completion.                               *)
(***************************************************************************)
\* what the reduce step reads off source i
Descriptor(i) == FieldsOf(Awaited(MapSource(importFrom[i])))

\* the configured sources that are loaded as CSS files
CssSources == {i \in 1..Len(importFrom) : LoaderOf(Descriptor(i)) = "css"}

\* no configured source fails to load
SourcesSettleOk ==
    \A i \in 1..Len(importFrom) :
        CASE LoaderOf(Descriptor(i)) = "css" -> Parses(Descriptor(i)["from"])
          [] LoaderOf(Descriptor(i)) \in {"js", "json"} -> Loads(Descriptor(i)["from"])
          [] OTHER -> TRUE

\* the import graph reachable from the stylesheets and the CSS sources has no
\* cycle
Acyclic ==
    \A f \in Reachable({Descriptor(i)["from"] : i \in {j \in CssSources : Parses(Descriptor(j)["from"])}}
                       \cup UNION {ImportTargets(sheets[k].imports, SourceDir(sheets[k].file)) :
                                      k \in 1..Len(sheets)}) :
        ~OnCycle(f)

RECURSIVE LoadsFor(_, _, _)
\* the loads started for the @imports of a root in directory dir, and for
\* theirs, down to depth
LoadsFor(imports, dir, depth) ==
    IF imports = <<>> \/ depth = 0 THEN 0
    ELSE LET id == StripQuotes(Head(imports))
             p == IF isAbsolute(id) THEN id
                  ELSE IF resolveId(id, dir).ok THEN resolveId(id, dir).path
                  ELSE <<>>
         IN  1 + (IF Parses(p) THEN LoadsFor(files[p].imports, dirname(p), depth - 1) ELSE 0)
               + LoadsFor(Tail(imports), dir, depth)

RECURSIVE SumTo(_, _)
SumTo(n, f) == IF n = 0 THEN 0 ELSE f[n] + SumTo(n - 1, f)

\* the loads a complete run starts, for the sources and for the stylesheets
NeededLoads ==
    LET depth == Cardinality(DOMAIN files) + 1
        ofSource == [i \in 1..Len(importFrom) |->
                        IF i \in CssSources
                        THEN 1 + (IF Parses(Descriptor(i)["from"])
                                  THEN LoadsFor(files[Descriptor(i)["from"]].imports,
                                                dirname(Descriptor(i)["from"]), depth)
                                  ELSE 0)
                        ELSE 0]
        ofSheet == [k \in 1..Len(sheets) |->
                        1 + LoadsFor(sheets[k].imports, SourceDir(sheets[k].file), depth)]
    IN  SumTo(Len(importFrom), ofSource) + SumTo(Len(sheets), ofSheet)

\* the hypotheses of completion: the rule is enabled, no configured source
\* fails, the import graph is acyclic, and the run fits the bound on loads
Completable ==
    /\ isMethodEnabled(method)
    /\ SourcesSettleOk
    /\ Acyclic
    /\ NeededLoads <= MaxTasks

\* C20: when the import graph reachable from the stylesheets and the CSS
\* sources is acyclic, no configured source fails, and every read and
\* resolution settles (an @import possibly with a failure), a stylesheet
\* whose lint callback awaits the shared resolution is eventually validated
\* (the inputs hold at most two stylesheets).
C20_AcyclicResolutionCompletes ==
    \A k \in 1..2 :
        (k <= Len(sheets) /\ Completable /\ lint[k].pc = "awaitShared")
            ~> (k <= Len(sheets) /\ lint[k].validated)

\* C20 witness: a stylesheet was validated whose two @imports are one that
\* names no file and one whose file imports a further file
C20_Witness ==
    \E k \in 1..Len(sheets) :
        /\ Completable
        /\ lint[k].validated
        /\ Len(sheets[k].imports) = 2
        /\ \E c \in Below(lint[k].task, 1) : Broken(c)
        /\ \E c \in Below(lint[k].task, 1) : Returned(c) /\ \E g \in Below(c, 1) : Returned(g)

====
